---------------------------- MODULE Spec2Model ----------------------------
(***************************************************************************)
(* Model of get_new_dependencies.py: a single-run command-line pipeline     *)
(*   parse --date -> read environment -> authenticate -> paginated fetch    *)
(*   -> output file names -> write JSON -> write CSV -> exit.               *)
(*                                                                          *)
(* Text whose characters matter (date text, branch, project uuid, package   *)
(* name, filter expression, file names) is a sequence of one-character      *)
(* strings.  A Python value that is either None or a string is a tuple:     *)
(* << >> is None (or a key missing from a dict), << s >> is the string s.   *)
(***************************************************************************)
EXTENDS Integers, Sequences, FiniteSets, TLC

VARIABLES
    pc,               \* position of main()
    args,             \* argparse namespace: project_uuid, date, branch
    environ,          \* os.environ: API_KEY, API_SECRET, ENDOR_NAMESPACE
    cutoff_date,      \* result of parse_date(args.date)
    env,              \* result of get_env_values()
    token,            \* result of get_token()
    params,           \* query parameters of get_new_dependencies
    next_page_id,     \* page cursor of get_new_dependencies
    page_num,         \* page counter of get_new_dependencies
    new_dependencies, \* accumulator; after the fetch: the returned list
    filenames,        \* (json_filename, csv_filename)
    auth_requests,    \* POST /auth/api-key requests issued so far
    query_requests,   \* GET dependency-metadata requests issued so far
    responses,        \* responses the API gave to the query requests
    auth_response,    \* what the API answered to the authentication request
    files,            \* files written so far, in order of writing
    exit_status,      \* << >> while running, << n >> once the process ended
    input,            \* argument(s) of the function applied on its own
    output            \* << >>, or << its result(s) >>

vars == <<pc, args, environ, cutoff_date, env, token, params, next_page_id,
          page_num, new_dependencies, filenames, auth_requests,
          query_requests, responses, auth_response, files, exit_status,
          input, output>>

-----------------------------------------------------------------------------
(* Bounds of the model *)

\* the API ends pagination at the latest with page MaxPages
MaxPages == 3

-----------------------------------------------------------------------------
(* Python values and str methods *)

None == << >>

Str(s) == << s >>

Truthy(v) == v # None /\ v[1] # << >>

\* dict.get(key, default) on a key that is << >> when missing
DictGet(v, default) == IF v = << >> THEN default ELSE v[1]

\* index of the first occurrence of sep in s, 0 when there is none
Find(s, sep) ==
    LET hits == { i \in 1..(Len(s) - Len(sep) + 1) :
                    SubSeq(s, i, i + Len(sep) - 1) = sep }
    IN  IF hits = {} THEN 0 ELSE CHOOSE i \in hits : \A j \in hits : i <= j

Contains(s, sep) == Find(s, sep) # 0

RECURSIVE Split(_, _)
\* str.split(sep)
Split(s, sep) ==
    LET i == Find(s, sep)
    IN  IF i = 0
        THEN << s >>
        ELSE << SubSeq(s, 1, i - 1) >>
               \o Split(SubSeq(s, i + Len(sep), Len(s)), sep)

Last(q) == q[Len(q)]

\* str.replace(old, new) for a one-character old
Replace(s, old, new) ==
    LET RECURSIVE R(_)
        R(t) == IF t = << >> THEN << >>
                ELSE (IF Head(t) = old THEN new ELSE << Head(t) >>) \o R(Tail(t))
    IN  R(s)

-----------------------------------------------------------------------------
(* Decimal numbers *)

DigitChars == <<"0", "1", "2", "3", "4", "5", "6", "7", "8", "9">>

IsDigit(c) == \E i \in 1..10 : DigitChars[i] = c

DigitVal(c) == (CHOOSE i \in 1..10 : DigitChars[i] = c) - 1

AllDigits(s) == \A i \in 1..Len(s) : IsDigit(s[i])

RECURSIVE ToInt(_)
ToInt(s) == IF s = << >> THEN 0
            ELSE 10 * ToInt(SubSeq(s, 1, Len(s) - 1)) + DigitVal(s[Len(s)])

\* %02d and %04d of strftime
Digit(n) == DigitChars[(n % 10) + 1]

Pad2(n) == << Digit(n \div 10), Digit(n) >>

Pad4(n) == << Digit(n \div 1000), Digit(n \div 100), Digit(n \div 10), Digit(n) >>

-----------------------------------------------------------------------------
(* parse_date and format_date_for_api *)

IsLeap(y) == (y % 4 = 0 /\ y % 100 # 0) \/ y % 400 = 0

DaysInMonth(y, m) ==
    IF m = 2 THEN (IF IsLeap(y) THEN 29 ELSE 28)
    ELSE IF m \in {4, 6, 9, 11} THEN 30 ELSE 31

\* a field of strptime: one or two digits (four for %Y) with a value in
\* lo..hi (%S stops at 59: datetime rejects the leap seconds strptime reads)
Field(s, minLen, maxLen, lo, hi) ==
    /\ Len(s) >= minLen
    /\ Len(s) <= maxLen
    /\ AllDigits(s)
    /\ ToInt(s) >= lo
    /\ ToInt(s) <= hi

NoDate == [ok |-> FALSE, year |-> 0, month |-> 0, day |-> 0,
           hour |-> 0, minute |-> 0, second |-> 0, utc |-> FALSE]

\* %Y-%m-%d
MatchYmd(s) ==
    LET p == Split(s, <<"-">>)
    IN  /\ Len(p) = 3
        /\ Field(p[1], 4, 4, 0, 9999)
        /\ Field(p[2], 1, 2, 1, 12)
        /\ Field(p[3], 1, 2, 1, 31)
        /\ ToInt(p[3]) <= DaysInMonth(ToInt(p[1]), ToInt(p[2]))

\* %H:%M:%S
MatchHms(s) ==
    LET p == Split(s, <<":">>)
    IN  /\ Len(p) = 3
        /\ Field(p[1], 1, 2, 0, 23)
        /\ Field(p[2], 1, 2, 0, 59)
        /\ Field(p[3], 1, 2, 0, 59)

\* datetime.strptime(date_string, fmt) for the four layouts; sep is the
\* text between date and time, tail the text after the time.  Fields may be
\* written without a leading zero, as strptime allows; its matching of
\* letters in either case and of runs of spaces is left out: the date texts
\* considered are written with upper-case T and Z and single spaces.
Strptime(s, withTime, sep, tail) ==
    IF ~withTime
    THEN IF MatchYmd(s)
         THEN LET p == Split(s, <<"-">>)
              IN  [ok |-> TRUE, year |-> ToInt(p[1]), month |-> ToInt(p[2]),
                   day |-> ToInt(p[3]), hour |-> 0, minute |-> 0, second |-> 0,
                   utc |-> FALSE]
         ELSE NoDate
    ELSE LET body == IF tail # << >> /\ Len(s) >= Len(tail)
                        /\ SubSeq(s, Len(s) - Len(tail) + 1, Len(s)) = tail
                     THEN SubSeq(s, 1, Len(s) - Len(tail))
                     ELSE s
             tailOk == tail = << >> \/ Len(body) < Len(s)
             dt == Split(body, sep)
         IN  IF tailOk /\ Len(dt) = 2 /\ MatchYmd(dt[1]) /\ MatchHms(dt[2])
             THEN LET p == Split(dt[1], <<"-">>)
                      t == Split(dt[2], <<":">>)
                  IN  [ok |-> TRUE, year |-> ToInt(p[1]), month |-> ToInt(p[2]),
                       day |-> ToInt(p[3]), hour |-> ToInt(t[1]),
                       minute |-> ToInt(t[2]), second |-> ToInt(t[3]),
                       utc |-> FALSE]
             ELSE NoDate

\* the list date_formats, in order
date_formats == << [withTime |-> FALSE, sep |-> << >>, tail |-> << >>],
                   [withTime |-> TRUE, sep |-> <<"T">>, tail |-> << >>],
                   [withTime |-> TRUE, sep |-> <<"T">>, tail |-> <<"Z">>],
                   [withTime |-> TRUE, sep |-> <<" ">>, tail |-> << >>] >>

\* parse_date: the first layout that matches wins; tzinfo is set to UTC.
\* ok = FALSE stands for the ValueError raised when no layout matches.
parse_date(date_string) ==
    LET try(i) == Strptime(date_string, date_formats[i].withTime,
                           date_formats[i].sep, date_formats[i].tail)
        hits == { i \in 1..Len(date_formats) : try(i).ok }
    IN  IF hits = {} THEN NoDate
        ELSE LET first == CHOOSE i \in hits : \A j \in hits : i <= j
             IN  [try(first) EXCEPT !.utc = TRUE]

\* faulty variant: month and day are not zero-padded
format_date_unpadded(date_obj) ==
    LET num(n) == IF n < 10 THEN << Digit(n) >> ELSE Pad2(n)
    IN  <<"d", "a", "t", "e", "(">> \o Pad4(date_obj.year) \o <<"-">> \o num(date_obj.month)
           \o <<"-">> \o num(date_obj.day) \o <<")">>

\* format_date_for_api: the cutoff is already UTC (parse_date sets tzinfo to
\* UTC), so astimezone(timezone.utc) leaves the calendar date unchanged
format_date_for_api(date_obj) ==
    <<"d", "a", "t", "e", "(">> \o Pad4(date_obj.year) \o <<"-">> \o Pad2(date_obj.month)
       \o <<"-">> \o Pad2(date_obj.day) \o <<")">>

-----------------------------------------------------------------------------
(* Normalization of one API object (body of the for loop) *)

\* {} read as a dict of the shape at hand: every key missing
EmptySpec == [dependency_data |-> None]
EmptyDepData == [package_name |-> None, resolved_version |-> None]
EmptyMeta == [create_time |-> None, name |-> None]

\* if package_name and '://' in package_name:
\*     package_name = package_name.split('://')[-1]
strip_package_name(package_name) ==
    IF package_name # << >> /\ Contains(package_name, <<":", "/", "/">>)
    THEN Last(Split(package_name, <<":", "/", "/">>))
    ELSE package_name

dependency_info(obj) ==
    LET dep_data == DictGet(DictGet(obj.spec, EmptySpec).dependency_data,
                            EmptyDepData)
        package_name == DictGet(dep_data.package_name, << >>)
        resolved_version == DictGet(dep_data.resolved_version, << >>)
        created_str == DictGet(DictGet(obj.meta, EmptyMeta).create_time, << >>)
    IN  [package_name |-> Str(strip_package_name(package_name)),
         resolved_version |-> Str(resolved_version),
         created_date |-> Str(created_str),
         uuid |-> obj.uuid,
         name |-> Str(DictGet(DictGet(obj.meta, EmptyMeta).name, << >>))]

RECURSIVE NormalizeAll(_)
\* the for loop over the objects of one page
NormalizeAll(objects) ==
    IF objects = << >> THEN << >>
    ELSE << dependency_info(Head(objects)) >> \o NormalizeAll(Tail(objects))

-----------------------------------------------------------------------------
(* Output file names and file contents *)

\* faulty variant: the time of day is cut off the date text
safe_date_day_only(date_str) ==
    Split(Split(Replace(date_str, "-", << >>), <<"T">>)[1], <<" ">>)[1]

safe_date(date_str) ==
    Split(Split(Replace(Replace(Replace(date_str, "-", << >>), "T", <<"_">>),
                        ":", << >>),
                <<"+">>)[1],
          <<"Z">>)[1]

\* faulty variant: spaces are left in the branch
safe_branch_keeps_spaces(branch) ==
    Replace(Replace(branch, "/", <<"_">>), "\\", <<"_">>)

safe_branch(branch) ==
    Replace(Replace(Replace(branch, "/", <<"_">>), "\\", <<"_">>), " ", <<"_">>)

generate_output_filenames(project_uuid, date_str, branch) ==
    LET base_name ==
            IF Truthy(branch)
            THEN project_uuid \o <<"_", "n", "e", "w", "_", "d", "e", "p", "e", "n", "d", "e", "n", "c", "i", "e", "s", "_">> \o safe_date(date_str)
                   \o <<"_">> \o safe_branch(branch[1])
            ELSE project_uuid \o <<"_", "n", "e", "w", "_", "d", "e", "p", "e", "n", "d", "e", "n", "c", "i", "e", "s", "_">> \o safe_date(date_str)
    IN  << base_name \o <<".", "j", "s", "o", "n">>, base_name \o <<".", "c", "s", "v">> >>

fieldnames == << "package_name", "resolved_version", "created_date", "uuid", "name" >>

\* json.dump of one value: None is written null, a string as a string
JsonValue(v) == IF v = None THEN [type |-> "null", text |-> << >>]
                ELSE [type |-> "string", text |-> v[1]]

\* json.dump(new_dependencies, f, indent=2): an array of objects, the keys
\* of each in insertion order
JsonDump(dependencies) ==
    [i \in 1..Len(dependencies) |->
        << [key |-> "package_name", value |-> JsonValue(dependencies[i].package_name)],
           [key |-> "resolved_version", value |-> JsonValue(dependencies[i].resolved_version)],
           [key |-> "created_date", value |-> JsonValue(dependencies[i].created_date)],
           [key |-> "uuid", value |-> JsonValue(dependencies[i].uuid)],
           [key |-> "name", value |-> JsonValue(dependencies[i].name)] >>]

\* a csv cell: None is written as the empty string
CsvCell(v) == IF v = None THEN << >> ELSE v[1]

CsvRow(d) == << CsvCell(d.package_name), CsvCell(d.resolved_version),
                CsvCell(d.created_date), CsvCell(d.uuid), CsvCell(d.name) >>

\* faulty variant: no header is written for an empty list
write_csv_no_header_when_empty(dependencies) ==
    IF dependencies = << >>
    THEN << >>
    ELSE << fieldnames >> \o [i \in 1..Len(dependencies) |-> CsvRow(dependencies[i])]

\* write_csv_file: the rows written, the header first
write_csv_file(dependencies) ==
    IF dependencies = << >>
    THEN << fieldnames >>
    ELSE << fieldnames >> \o [i \in 1..Len(dependencies) |-> CsvRow(dependencies[i])]

-----------------------------------------------------------------------------
(* get_env_values, the token check of main, the query of
   get_new_dependencies *)

\* faulty variant: tests for None instead of falsiness
env_missing_is_none(e) ==
    e.API_KEY = None \/ e.API_SECRET = None \/ e.ENDOR_NAMESPACE = None

\* not api_key or not api_secret or not initial_namespace
env_missing(e) ==
    ~Truthy(e.API_KEY) \/ ~Truthy(e.API_SECRET) \/ ~Truthy(e.ENDOR_NAMESPACE)

\* faulty variant: tests for None instead of falsiness
token_is_not_none(t) == t # None

\* if not token: sys.exit(1)
token_ok(t) == Truthy(t)

context_part(branch) ==
    IF Truthy(branch) THEN <<"c", "o", "n", "t", "e", "x", "t", ".", "i", "d", "=", "=">> \o branch[1]
    ELSE <<"c", "o", "n", "t", "e", "x", "t", ".", "t", "y", "p", "e", "=", "=", "C", "O", "N", "T", "E", "X", "T", "_", "T", "Y", "P", "E", "_", "M", "A", "I", "N">>

context_filter(project_uuid, date_obj, branch) ==
    <<"s", "p", "e", "c", ".", "i", "m", "p", "o", "r", "t", "e", "r", "_", "d", "a", "t", "a", ".", "p", "r", "o", "j", "e", "c", "t", "_", "u", "u", "i", "d", "=", "=">> \o project_uuid
       \o <<" ", "a", "n", "d", " ", "m", "e", "t", "a", ".", "c", "r", "e", "a", "t", "e", "_", "t", "i", "m", "e", ">", "=">> \o format_date_for_api(date_obj)
       \o <<" ", "a", "n", "d", " ">> \o context_part(branch)

list_parameters_mask ==
    "meta.name,meta.create_time,spec.dependency_data,spec.importer_data"

\* if next_page_id: params['list_parameters.page_id'] = next_page_id
with_page_id(p, cursor) ==
    IF Truthy(cursor) THEN [p EXCEPT !.page_id = cursor] ELSE p

\* faulty variant: the accumulator is reset on every page
accumulate_page_only(acc, objects) == NormalizeAll(objects)

\* new_dependencies.append(dependency_info) for every object of the page
accumulate(acc, objects) == acc \o NormalizeAll(objects)

\* faulty variant: the records gathered so far are returned on an error
fetch_error_partial(acc) == acc

\* except requests.exceptions.RequestException: return []
fetch_error_result(acc) == << >>

-----------------------------------------------------------------------------
(* Inputs of a run, and what the API may answer *)

ProjectUuids == { <<"a", "b", "c", "-", "1", "2", "3">> }

\* --date texts in each of the four layouts, and texts in none of them
ValidDateTexts == { <<"2", "0", "2", "4", "-", "0", "1", "-", "0", "1">>, <<"2", "0", "2", "4", "-", "0", "6", "-", "1", "5", "T", "2", "3", ":", "5", "9", ":", "5", "9">>,
                    <<"2", "0", "2", "4", "-", "6", "-", "5", "T", "2", "3", ":", "5", "9", ":", "5", "9", "Z">>, <<"2", "0", "2", "4", "-", "0", "6", "-", "1", "5", " ", "2", "3", ":", "5", "9", ":", "5", "9">> }

InvalidDateTexts == { <<"0", "1", "/", "0", "1", "/", "2", "0", "2", "4">>, <<"2", "0", "2", "4", "-", "0", "1", "-", "0", "1", "T", "0", "0", ":", "0", "0", ":", "0", "0", "+", "0", "5", ":", "0", "0">> }

DateTexts == ValidDateTexts \cup InvalidDateTexts

Branches == { None, Str(<< >>), Str(<<"a", "/", "b">>) }

EnvValues == { None, Str(<< >>), Str(<<"v">>) }

Environs == [API_KEY : EnvValues, API_SECRET : EnvValues, ENDOR_NAMESPACE : EnvValues]

AuthResponses ==
    { [status |-> "transport", token |-> None],
      [status |-> "http", token |-> None],
      [status |-> "ok", token |-> None],
      [status |-> "ok", token |-> Str(<< >>)],
      [status |-> "ok", token |-> Str(<<"t", "o", "k">>)] }

FullObject ==
    [spec |-> << [dependency_data |->
                    << [package_name |-> Str(<<"n", "p", "m", ":", "/", "/", "f", "o", "o">>),
                        resolved_version |-> Str(<<"1", ".", "2", ".", "3">>)] >>] >>,
     meta |-> << [create_time |-> Str(<<"2", "0", "2", "4", "-", "0", "2", "-", "0", "3">>),
                  name |-> Str(<<"n", "1">>)] >>,
     uuid |-> Str(<<"u", "1">>)]

BareObject == [spec |-> None, meta |-> None, uuid |-> None]

ObjectPool == { FullObject, BareObject }

Cursors == { None, Str(<< >>), Str(<<"p", "1">>), Str(<<"p", "2">>) }

\* the objects of one page: none, one, or two different ones in either order
ObjectLists ==
    {<< >>} \cup { << o >> : o \in ObjectPool }
            \cup { q \in ObjectPool \X ObjectPool : q[1] # q[2] }

\* a page the API returns with a success status
OkResponses ==
    [status : {"ok"}, objects : ObjectLists, next_page_id : Cursors]

\* a request that fails in transport, or with a non-success HTTP status
ErrorResponses ==
    [status : {"transport", "http"}, objects : {<< >>}, next_page_id : {None}]

-----------------------------------------------------------------------------
(* main *)

NoEnv == [api_key |-> << >>, api_secret |-> << >>, initial_namespace |-> << >>]

NoParams == [filter |-> << >>, mask |-> "", page_id |-> None]

InitRun ==
    /\ cutoff_date = NoDate
    /\ env = NoEnv
    /\ token = None
    /\ params = NoParams
    /\ next_page_id = None
    /\ page_num = 0
    /\ new_dependencies = << >>
    /\ filenames = << >>
    /\ auth_requests = << >>
    /\ query_requests = << >>
    /\ responses = << >>
    /\ auth_response = << >>
    /\ files = << >>
    /\ exit_status = << >>

Init ==
    /\ pc = "parse_date"
    /\ args \in [project_uuid : ProjectUuids, date : DateTexts, branch : Branches]
    /\ environ \in Environs
    /\ InitRun
    /\ input = << >>
    /\ output = << >>

fetch_vars == <<params, next_page_id, page_num, new_dependencies,
                query_requests, responses>>

\* cutoff_date = parse_date(args.date)
ParseDateOk ==
    /\ pc = "parse_date"
    /\ parse_date(args.date).ok
    /\ cutoff_date' = parse_date(args.date)
    /\ pc' = "get_env_values"
    /\ UNCHANGED <<args, environ, env, token, fetch_vars, filenames,
                   auth_requests, auth_response, files, exit_status,
                   input, output>>

\* except ValueError: sys.exit(1)
ParseDateError ==
    /\ pc = "parse_date"
    /\ ~parse_date(args.date).ok
    /\ pc' = "exit"
    /\ exit_status' = << 1 >>
    /\ UNCHANGED <<args, environ, cutoff_date, env, token, fetch_vars,
                   filenames, auth_requests, auth_response, files,
                   input, output>>

GetEnvValuesOk ==
    /\ pc = "get_env_values"
    /\ ~env_missing(environ)
    /\ env' = [api_key |-> environ.API_KEY[1],
               api_secret |-> environ.API_SECRET[1],
               initial_namespace |-> environ.ENDOR_NAMESPACE[1]]
    /\ pc' = "get_token"
    /\ UNCHANGED <<args, environ, cutoff_date, token, fetch_vars, filenames,
                   auth_requests, auth_response, files, exit_status,
                   input, output>>

GetEnvValuesExit ==
    /\ pc = "get_env_values"
    /\ env_missing(environ)
    /\ pc' = "exit"
    /\ exit_status' = << 1 >>
    /\ UNCHANGED <<args, environ, cutoff_date, env, token, fetch_vars,
                   filenames, auth_requests, auth_response, files,
                   input, output>>

\* the POST of get_token answered with a success status
GetTokenOk ==
    /\ pc = "get_token"
    /\ \E r \in { a \in AuthResponses : a.status = "ok" } :
          /\ auth_response' = << r >>
          /\ token' = r.token
    /\ auth_requests' = Append(auth_requests,
                               [key |-> env.api_key, secret |-> env.api_secret])
    /\ pc' = "check_token"
    /\ UNCHANGED <<args, environ, cutoff_date, env, fetch_vars, filenames,
                   files, exit_status, input, output>>

\* except requests.exceptions.RequestException: sys.exit(1)
GetTokenError ==
    /\ pc = "get_token"
    /\ \E r \in { a \in AuthResponses : a.status # "ok" } :
          auth_response' = << r >>
    /\ auth_requests' = Append(auth_requests,
                               [key |-> env.api_key, secret |-> env.api_secret])
    /\ pc' = "exit"
    /\ exit_status' = << 1 >>
    /\ UNCHANGED <<args, environ, cutoff_date, env, token, fetch_vars,
                   filenames, files, input, output>>

CheckTokenOk ==
    /\ pc = "check_token"
    /\ token_ok(token)
    /\ pc' = "get_new_dependencies"
    /\ UNCHANGED <<args, environ, cutoff_date, env, token, fetch_vars,
                   filenames, auth_requests, auth_response, files,
                   exit_status, input, output>>

CheckTokenExit ==
    /\ pc = "check_token"
    /\ ~token_ok(token)
    /\ pc' = "exit"
    /\ exit_status' = << 1 >>
    /\ UNCHANGED <<args, environ, cutoff_date, env, token, fetch_vars,
                   filenames, auth_requests, auth_response, files,
                   input, output>>

\* get_new_dependencies up to its while loop
StartFetch ==
    /\ pc = "get_new_dependencies"
    /\ params' = [filter |-> context_filter(args.project_uuid, cutoff_date,
                                            args.branch),
                  mask |-> list_parameters_mask,
                  page_id |-> None]
    /\ new_dependencies' = << >>
    /\ next_page_id' = None
    /\ page_num' = 1
    /\ pc' = "fetch_page"
    /\ UNCHANGED <<args, environ, cutoff_date, env, token, filenames,
                   auth_requests, query_requests, responses, auth_response,
                   files, exit_status, input, output>>

\* the GET of one loop iteration, as requests.get sends it
QueryRequest(p) ==
    [namespace |-> env.initial_namespace, token |-> token,
     filter |-> p.filter, mask |-> p.mask, page_id |-> p.page_id]

\* one iteration of the while loop whose request succeeds
FetchPageOk ==
    /\ pc = "fetch_page"
    /\ page_num <= MaxPages
    /\ \E r \in OkResponses :
          /\ page_num = MaxPages => ~Truthy(r.next_page_id)
          /\ responses' = Append(responses, r)
          /\ new_dependencies' = accumulate(new_dependencies, r.objects)
          /\ next_page_id' = r.next_page_id
          /\ IF ~Truthy(r.next_page_id)
             THEN /\ pc' = "generate_output_filenames"
                  /\ page_num' = page_num
             ELSE /\ pc' = "fetch_page"
                  /\ page_num' = page_num + 1
    /\ params' = with_page_id(params, next_page_id)
    /\ query_requests' = Append(query_requests,
                                QueryRequest(with_page_id(params, next_page_id)))
    /\ UNCHANGED <<args, environ, cutoff_date, env, token, filenames,
                   auth_requests, auth_response, files, exit_status,
                   input, output>>

\* one iteration of the while loop whose request raises RequestException
FetchPageError ==
    /\ pc = "fetch_page"
    /\ page_num <= MaxPages
    /\ \E r \in ErrorResponses : responses' = Append(responses, r)
    /\ params' = with_page_id(params, next_page_id)
    /\ query_requests' = Append(query_requests,
                                QueryRequest(with_page_id(params, next_page_id)))
    /\ new_dependencies' = fetch_error_result(new_dependencies)
    /\ pc' = "generate_output_filenames"
    /\ UNCHANGED <<args, environ, cutoff_date, env, token, next_page_id,
                   page_num, filenames, auth_requests, auth_response, files,
                   exit_status, input, output>>

GenerateFilenames ==
    /\ pc = "generate_output_filenames"
    /\ filenames' = generate_output_filenames(args.project_uuid, args.date,
                                              args.branch)
    /\ pc' = "write_json"
    /\ UNCHANGED <<args, environ, cutoff_date, env, token, fetch_vars,
                   auth_requests, auth_response, files, exit_status,
                   input, output>>

WriteJson ==
    /\ pc = "write_json"
    /\ files' = Append(files, [name |-> filenames[1],
                               content |-> JsonDump(new_dependencies)])
    /\ pc' = "write_csv"
    /\ UNCHANGED <<args, environ, cutoff_date, env, token, fetch_vars,
                   filenames, auth_requests, auth_response, exit_status,
                   input, output>>

\* write_csv_file, the summary line, and the return of main
WriteCsv ==
    /\ pc = "write_csv"
    /\ files' = Append(files, [name |-> filenames[2],
                               content |-> write_csv_file(new_dependencies)])
    /\ pc' = "exit"
    /\ exit_status' = << 0 >>
    /\ UNCHANGED <<args, environ, cutoff_date, env, token, fetch_vars,
                   filenames, auth_requests, auth_response, input, output>>

Next ==
    \/ ParseDateOk
    \/ ParseDateError
    \/ GetEnvValuesOk
    \/ GetEnvValuesExit
    \/ GetTokenOk
    \/ GetTokenError
    \/ CheckTokenOk
    \/ CheckTokenExit
    \/ StartFetch
    \/ FetchPageOk
    \/ FetchPageError
    \/ GenerateFilenames
    \/ WriteJson
    \/ WriteCsv

Spec == Init /\ [][Next]_vars

-----------------------------------------------------------------------------
(* The normalization applied on its own to one API object *)

PackageNames == { <<"n", "p", "m", ":", "/", "/", "l", "e", "f", "t", "-", "p", "a", "d">>, <<"l", "e", "f", "t", "-", "p", "a", "d">>, <<"m", "v", "n", ":", "/", "/", "a", ":", "/", "/", "b">>, <<":", "/", "/", "x">>,
                  <<"n", "p", "m", ":", "/", "/">>, << >> }

DepDatas == [package_name : {None} \cup { Str(n) : n \in PackageNames },
             resolved_version : {None, Str(<<"1", ".", "2", ".", "3">>)}]

RawSpecs == {None, << EmptySpec >>}
               \cup { << [dependency_data |-> << d >>] >> : d \in DepDatas }

RawMetas == {None}
               \cup { << m >> : m \in [create_time : {None, Str(<<"2", "0", "2", "4", "-", "0", "2", "-", "0", "3">>)},
                                       name : {None, Str(<<"n", "1">>)}] }

RawObjects == [spec : RawSpecs, meta : RawMetas, uuid : {None, Str(<<"u", "1">>)}]

NoArgs == [project_uuid |-> << >>, date |-> << >>, branch |-> None]

NoEnviron == [API_KEY |-> None, API_SECRET |-> None, ENDOR_NAMESPACE |-> None]

InitNormalize ==
    /\ pc = "normalize"
    /\ input \in { << o >> : o \in RawObjects }
    /\ output = << >>
    /\ args = NoArgs
    /\ environ = NoEnviron
    /\ InitRun

Normalize ==
    /\ pc = "normalize"
    /\ output' = << dependency_info(input[1]) >>
    /\ pc' = "normalized"
    /\ UNCHANGED <<args, environ, cutoff_date, env, token, fetch_vars,
                   filenames, auth_requests, auth_response, files,
                   exit_status, input>>

NextNormalize == Normalize

SpecNormalize == InitNormalize /\ [][NextNormalize]_vars

-----------------------------------------------------------------------------
(* generate_output_filenames applied on its own to the inputs of two runs *)

NameUuids == { <<"a", "b", "c", "-", "1", "2", "3">>, <<"a", "b", "c", "-", "1", "2", "4">> }

NameDates == { <<"2", "0", "2", "4", "-", "0", "1", "-", "0", "1">>, <<"2", "0", "2", "4", "-", "0", "1", "-", "0", "1", "T", "0", "0", ":", "0", "0", ":", "0", "0">>, <<"2", "0", "2", "4", "-", "0", "1", "-", "0", "1", "T", "0", "0", ":", "0", "0", ":", "0", "0", "Z">>,
               <<"2", "0", "2", "4", "-", "0", "1", "-", "0", "1", " ", "1", "2", ":", "3", "0", ":", "0", "0">>, <<"2", "0", "2", "4", "-", "0", "6", "-", "1", "5", "T", "2", "3", ":", "5", "9", ":", "5", "9", "Z">>,
               <<"2", "0", "2", "4", "-", "1", "-", "1", "1">>, <<"2", "0", "2", "4", "-", "1", "1", "-", "1">> }

NameBranches == { None, Str(<< >>), Str(<<"a", "/", "b">>), Str(<<"a", " ", "b">>), Str(<<"a", "_", "b">>),
                  Str(<<"a", "\\", "b">>) }

Invocations == [project_uuid : NameUuids,
                date : { d \in NameDates : parse_date(d).ok },
                branch : NameBranches]

InitNames ==
    /\ pc = "filenames"
    /\ input \in Invocations \X Invocations
    /\ output = << >>
    /\ args = NoArgs
    /\ environ = NoEnviron
    /\ InitRun

ApplyFilenames ==
    /\ pc = "filenames"
    /\ output' = << generate_output_filenames(input[1].project_uuid,
                                              input[1].date, input[1].branch),
                    generate_output_filenames(input[2].project_uuid,
                                              input[2].date, input[2].branch) >>
    /\ pc' = "named"
    /\ UNCHANGED <<args, environ, cutoff_date, env, token, fetch_vars,
                   filenames, auth_requests, auth_response, files,
                   exit_status, input>>

NextNames == ApplyFilenames

SpecNames == InitNames /\ [][NextNames]_vars

-----------------------------------------------------------------------------
(* Vocabulary of the properties, stated from outside the program: what was  *)
(* asked of the API, what it answered, what reached the disk                *)

Empty(v) == v = None \/ v = Str(<< >>)

AfterFetch == pc \in {"generate_output_filenames", "write_json", "write_csv", "exit"}

FetchFailed == responses # << >> /\ Last(responses).status # "ok"

FetchSucceeded ==
    /\ AfterFetch
    /\ responses # << >>
    /\ Last(responses).status = "ok"

AuthFailed ==
    /\ auth_response # << >>
    /\ \/ auth_response[1].status # "ok"
       \/ Empty(auth_response[1].token)

AuthPassed ==
    /\ auth_response # << >>
    /\ auth_response[1].status = "ok"
    /\ ~Empty(auth_response[1].token)

EnvIncomplete ==
    Empty(environ.API_KEY) \/ Empty(environ.API_SECRET) \/ Empty(environ.ENDOR_NAMESPACE)

\* the objects of pages 1..n, page after page, each in the order returned
RECURSIVE ObjectsUpTo(_)
ObjectsUpTo(n) ==
    IF n = 0 THEN << >> ELSE ObjectsUpTo(n - 1) \o responses[n].objects

\* one record per object received, each the normalization of its object
ExpectedList ==
    LET objs == ObjectsUpTo(Len(responses))
    IN  [i \in 1..Len(objs) |-> dependency_info(objs[i])]

-----------------------------------------------------------------------------
(* C1 *)

\* C1: fail-fast on a query error.  A failed page request is the last request
\* of the fetch (every response before the last one was a success, and the
\* loop is left once a request failed), and the list the fetch returns is
\* then empty, whatever the earlier pages held.
C1_FailFast ==
    /\ \A i \in 1..(Len(responses) - 1) : responses[i].status = "ok"
    /\ Len(query_requests) = Len(responses)
    /\ FetchFailed => (AfterFetch /\ new_dependencies = << >>)

\* a fetch whose first page delivered a record and whose second request failed
C1_Witness ==
    /\ FetchFailed
    /\ Len(responses) >= 2
    /\ responses[1].objects # << >>
    /\ pc = "exit"

-----------------------------------------------------------------------------
(* C2 *)

\* C2: pagination.  One request per page, in order: the first request carries
\* no page cursor, request i+1 carries exactly the cursor response i returned;
\* the loop goes on exactly while the response carries a cursor, and a fetch
\* that ends on a success returns the normalized objects of all its pages,
\* concatenated in the order the API returned them.
C2_Pagination ==
    /\ Len(query_requests) = Len(responses)
    /\ query_requests # << >> => query_requests[1].page_id = None
    /\ \A i \in 1..(Len(query_requests) - 1) :
          /\ Truthy(responses[i].next_page_id)
          /\ query_requests[i + 1].page_id = responses[i].next_page_id
    /\ (responses # << >> /\ ~Truthy(Last(responses).next_page_id)) => AfterFetch
    /\ FetchSucceeded =>
          /\ ~Truthy(Last(responses).next_page_id)
          /\ new_dependencies = ExpectedList

\* a fetch of three pages, each with a record, under two different cursors
C2_Witness ==
    /\ FetchSucceeded
    /\ Len(responses) = 3
    /\ responses[1].next_page_id # responses[2].next_page_id
    /\ \A i \in 1..3 : responses[i].objects # << >>
    /\ responses[1].objects # responses[2].objects

-----------------------------------------------------------------------------
(* C3 *)

\* C3: pre-flight errors precede all network activity.  When the --date text
\* is in none of the four layouts, or one of API_KEY, API_SECRET,
\* ENDOR_NAMESPACE is missing or empty, the run never gets past the pre-flight
\* steps: no request of either kind is issued, no file is written, and the
\* only way it ends is with exit status 1.
C3_PreflightBeforeNetwork ==
    (args.date \in InvalidDateTexts \/ EnvIncomplete) =>
        /\ auth_requests = << >>
        /\ query_requests = << >>
        /\ files = << >>
        /\ pc \in {"parse_date", "get_env_values", "exit"}
        /\ exit_status \in {<< >>, << 1 >>}
        /\ pc = "exit" <=> exit_status = << 1 >>

\* a run with an accepted date that ended on an empty ENDOR_NAMESPACE
C3_Witness ==
    /\ pc = "exit"
    /\ args.date \in ValidDateTexts
    /\ ~Empty(environ.API_KEY)
    /\ ~Empty(environ.API_SECRET)
    /\ environ.ENDOR_NAMESPACE = Str(<< >>)

-----------------------------------------------------------------------------
(* C4 *)

\* C4: authentication failure is always fatal.  At most one authentication
\* request is made; when it fails in transport, gets a non-success status, or
\* succeeds with an absent or empty token, no dependency query is issued, no
\* file is written and the run can only end with exit status 1.  Every
\* dependency query carries a non-empty token.
C4_AuthFailureFatal ==
    /\ Len(auth_requests) <= 1
    /\ AuthFailed =>
          /\ query_requests = << >>
          /\ files = << >>
          /\ pc \in {"check_token", "exit"}
          /\ exit_status \in {<< >>, << 1 >>}
          /\ pc = "exit" <=> exit_status = << 1 >>
    /\ \A i \in 1..Len(query_requests) : ~Empty(query_requests[i].token)

\* a run ended by a successful authentication response with an empty token
C4_Witness ==
    /\ pc = "exit"
    /\ auth_response # << >>
    /\ auth_response[1].status = "ok"
    /\ auth_response[1].token = Str(<< >>)

-----------------------------------------------------------------------------
(* C5 *)

\* what reading the JSON file back gives: one record per object
JsonLoad(content) ==
    LET value(o, k) == LET e == CHOOSE e \in { o[j] : j \in 1..Len(o) } : e.key = k
                       IN  IF e.value.type = "null" THEN None ELSE Str(e.value.text)
    IN  [i \in 1..Len(content) |->
            [package_name |-> value(content[i], "package_name"),
             resolved_version |-> value(content[i], "resolved_version"),
             created_date |-> value(content[i], "created_date"),
             uuid |-> value(content[i], "uuid"),
             name |-> value(content[i], "name")]]

\* the text of a field as a csv cell shows it
CellText(d, k) ==
    LET v == CASE k = 1 -> d.package_name
               [] k = 2 -> d.resolved_version
               [] k = 3 -> d.created_date
               [] k = 4 -> d.uuid
               [] k = 5 -> d.name
    IN  IF v = None THEN << >> ELSE v[1]

CsvHoldsList(content, list) ==
    /\ Len(content) = Len(list) + 1
    /\ content[1] = << "package_name", "resolved_version", "created_date", "uuid", "name" >>
    /\ \A i \in 1..Len(list) :
          /\ Len(content[i + 1]) = 5
          /\ \A k \in 1..5 : content[i + 1][k] = CellText(list[i], k)

\* C5: output is a total serialization of the fetch result.  A run that
\* passed authentication never ends with a non-zero status; files are written
\* JSON first, then CSV, under the generated names; a run that ended with
\* status 0 wrote exactly these two files, the JSON file holding exactly the
\* list the fetch returned, in order, and the CSV file the header plus one
\* row per record, in order.  After a failed page fetch that is an empty
\* array and the header line alone.
C5_TotalSerialization ==
    /\ AuthPassed => exit_status \in {<< >>, << 0 >>}
    /\ Len(files) <= 2
    /\ files # << >> => files[1].name = filenames[1]
    /\ Len(files) = 2 => files[2].name = filenames[2]
    /\ exit_status = << 0 >> =>
          /\ AuthPassed
          /\ Len(files) = 2
          /\ JsonLoad(files[1].content) = new_dependencies
          /\ CsvHoldsList(files[2].content, new_dependencies)
          /\ FetchFailed => /\ files[1].content = << >>
                            /\ Len(files[2].content) = 1
          /\ FetchSucceeded => new_dependencies = ExpectedList

\* a run that ended with status 0 after its second page request failed
C5_Witness ==
    /\ exit_status = << 0 >>
    /\ FetchFailed
    /\ Len(responses) = 2
    /\ responses[1].objects # << >>

-----------------------------------------------------------------------------
(* C9 *)

\* the date(YYYY-MM-DD) literal of the UTC calendar date of each accepted text
ExpectedDateLiteral(text) ==
    CASE text = <<"2", "0", "2", "4", "-", "0", "1", "-", "0", "1">> -> <<"d", "a", "t", "e", "(", "2", "0", "2", "4", "-", "0", "1", "-", "0", "1", ")">>
      [] text = <<"2", "0", "2", "4", "-", "0", "6", "-", "1", "5", "T", "2", "3", ":", "5", "9", ":", "5", "9">> -> <<"d", "a", "t", "e", "(", "2", "0", "2", "4", "-", "0", "6", "-", "1", "5", ")">>
      [] text = <<"2", "0", "2", "4", "-", "6", "-", "5", "T", "2", "3", ":", "5", "9", ":", "5", "9", "Z">> -> <<"d", "a", "t", "e", "(", "2", "0", "2", "4", "-", "0", "6", "-", "0", "5", ")">>
      [] text = <<"2", "0", "2", "4", "-", "0", "6", "-", "1", "5", " ", "2", "3", ":", "5", "9", ":", "5", "9">> -> <<"d", "a", "t", "e", "(", "2", "0", "2", "4", "-", "0", "6", "-", "1", "5", ")">>

ExpectedContext ==
    IF Empty(args.branch) THEN <<"c", "o", "n", "t", "e", "x", "t", ".", "t", "y", "p", "e", "=", "=", "C", "O", "N", "T", "E", "X", "T", "_", "T", "Y", "P", "E", "_", "M", "A", "I", "N">>
    ELSE <<"c", "o", "n", "t", "e", "x", "t", ".", "i", "d", "=", "=">> \o args.branch[1]

ExpectedFilter ==
    <<"s", "p", "e", "c", ".", "i", "m", "p", "o", "r", "t", "e", "r", "_", "d", "a", "t", "a", ".", "p", "r", "o", "j", "e", "c", "t", "_", "u", "u", "i", "d", "=", "=">> \o args.project_uuid
       \o <<" ", "a", "n", "d", " ", "m", "e", "t", "a", ".", "c", "r", "e", "a", "t", "e", "_", "t", "i", "m", "e", ">", "=">> \o ExpectedDateLiteral(args.date)
       \o <<" ", "a", "n", "d", " ">> \o ExpectedContext

\* C9: the query filter is built once and is immutable for the run.  Every
\* page request carries the same filter and the same field mask, requests
\* differ in the page cursor only; the filter is the conjunction of the exact
\* project match, creation time >= the date-only literal of the cutoff's UTC
\* calendar date, and one context clause: the branch-id match when a
\* (non-empty) branch is given, the main-context type otherwise.
C9_FilterImmutable ==
    /\ \A i \in 1..Len(query_requests) :
          /\ query_requests[i].filter = ExpectedFilter
          /\ query_requests[i].mask =
                "meta.name,meta.create_time,spec.dependency_data,spec.importer_data"
          /\ [query_requests[i] EXCEPT !.page_id = None]
                = [query_requests[1] EXCEPT !.page_id = None]
    /\ pc = "fetch_page" => params.filter = ExpectedFilter

\* three requests of a branch run whose date text is not zero-padded
C9_Witness ==
    /\ Len(query_requests) = 3
    /\ ~Empty(args.branch)
    /\ args.date = <<"2", "0", "2", "4", "-", "6", "-", "5", "T", "2", "3", ":", "5", "9", ":", "5", "9", "Z">>
    /\ query_requests[2].page_id # query_requests[3].page_id

-----------------------------------------------------------------------------
(* C6 *)

\* the raw spec.dependency_data.package_name of an object, '' when missing
RawPackageName(obj) ==
    IF obj.spec = None THEN << >>
    ELSE IF obj.spec[1].dependency_data = None THEN << >>
    ELSE IF obj.spec[1].dependency_data[1].package_name = None THEN << >>
    ELSE obj.spec[1].dependency_data[1].package_name[1]

\* the text after the first "://" of a name, the name itself when it has none
AfterFirstSeparator(name) ==
    LET at == { i \in 1..Len(name) : i + 2 <= Len(name) /\ name[i] = ":"
                                     /\ name[i + 1] = "/" /\ name[i + 2] = "/" }
    IN  IF at = {} THEN name
        ELSE LET first == CHOOSE i \in at : \A j \in at : i <= j
             IN  [k \in 1..(Len(name) - first - 2) |-> name[first + 2 + k]]

\* C6: package name stripping.  The normalized package_name is the raw name
\* cut after the first occurrence of "://" (everything after that first
\* occurrence is kept); a name without "://" passes through unchanged.
C6_StripAtFirstSeparator ==
    output # << >> =>
        output[1].package_name = Str(AfterFirstSeparator(RawPackageName(input[1])))

-----------------------------------------------------------------------------
(* C8 *)

\* C8: every normalized record has the five fields package_name,
\* resolved_version, created_date, uuid and name, each of them a string; a
\* field missing from the API object (the top-level uuid included) gives the
\* empty string.
C8_FiveStringFields ==
    output # << >> =>
        /\ DOMAIN output[1] = {"package_name", "resolved_version", "created_date",
                               "uuid", "name"}
        /\ \A f \in DOMAIN output[1] : output[1][f] # None
        /\ input[1].uuid = None => output[1].uuid = Str(<< >>)
        /\ input[1].meta = None => /\ output[1].created_date = Str(<< >>)
                                   /\ output[1].name = Str(<< >>)
        /\ input[1].spec = None => /\ output[1].package_name = Str(<< >>)
                                   /\ output[1].resolved_version = Str(<< >>)

-----------------------------------------------------------------------------
(* C7 *)

Remove(text, chars) == SelectSeq(text, LAMBDA c : c \notin chars)

WithoutTrailingZ(text) ==
    IF text # << >> /\ text[Len(text)] = "Z"
    THEN SubSeq(text, 1, Len(text) - 1) ELSE text

Underscored(text, chars) ==
    [i \in 1..Len(text) |-> IF text[i] \in chars THEN "_" ELSE text[i]]

\* the names of a run whose sanitized date is sane_date
NamesWith(a, sane_date) ==
    LET base == a.project_uuid \o <<"_", "n", "e", "w", "_", "d", "e", "p", "e", "n", "d", "e", "n", "c", "i", "e", "s", "_">> \o sane_date
                  \o (IF Empty(a.branch) THEN << >>
                      ELSE <<"_">> \o Underscored(a.branch[1], {"/", "\\", " "}))
    IN  << base \o <<".", "j", "s", "o", "n">>, base \o <<".", "c", "s", "v">> >>

\* C7 as stated: the sanitized date is the date text with its hyphens, its
\* colons, the literal T and a trailing Z removed.
C7_DateLettersRemoved ==
    output # << >> =>
        output[1] = NamesWith(input[1],
                              Remove(WithoutTrailingZ(input[1].date), {"-", ":", "T"}))

\* C7, amended: the names are base + ".json" and base + ".csv", base being
\* uuid + "_new_dependencies_" + sanitized date, followed by "_" + sanitized
\* branch exactly when a non-empty branch is given.  The sanitized date is the
\* date text with its hyphens and colons removed, the literal T replaced by an
\* underscore and a trailing Z removed; the sanitized branch is the branch with
\* every "/", "\" and space replaced by an underscore.
C7_Filenames ==
    output # << >> =>
        output[1] = NamesWith(input[1],
                              Underscored(Remove(WithoutTrailingZ(input[1].date),
                                                 {"-", ":"}),
                                          {"T"}))

\* names computed for a date text with time of day and a branch with a space
C7_Witness ==
    /\ output # << >>
    /\ input[1].date = <<"2", "0", "2", "4", "-", "0", "1", "-", "0", "1", "T", "0", "0", ":", "0", "0", ":", "0", "0", "Z">>
    /\ input[1].branch = Str(<<"a", " ", "b">>)

-----------------------------------------------------------------------------
(* C10 *)

\* an absent and an empty --branch both count as no branch given
SameInputs(a, b) ==
    /\ a.project_uuid = b.project_uuid
    /\ a.date = b.date
    /\ a.branch = b.branch \/ (Empty(a.branch) /\ Empty(b.branch))

\* C10 as stated: two runs whose inputs differ get different JSON names and
\* different CSV names.
C10_NamesUnique ==
    (output # << >> /\ ~SameInputs(input[1], input[2])) =>
        /\ output[1][1] # output[2][1]
        /\ output[1][2] # output[2][2]

\* every field of the date text is written with all its digits
ZeroPadded(text) == Len(Remove(text, {"-", ":", "T", "Z", " "})) \in {8, 14}

\* the instant a zero-padded date text denotes, read off its digits
Instant(text) ==
    LET d == Remove(text, {"-", ":", "T", "Z", " "})
    IN  IF Len(d) = 8 THEN d \o <<"0", "0", "0", "0", "0", "0">> ELSE d

\* C10, amended: two runs get different JSON names and different CSV names
\* when they differ in the project uuid alone, or when they have the same
\* project uuid and branch and their date texts are zero-padded and denote
\* different instants.  (Runs that differ only in a trailing Z of the date, in
\* which of "/", "\", space or "_" the branch uses, or in an absent versus an
\* empty branch, share their names.)
C10_NamesDistinct ==
    output # << >> =>
        LET a == input[1]
            b == input[2]
        IN  (\/ /\ a.project_uuid # b.project_uuid
                /\ a.date = b.date
                /\ a.branch = b.branch
             \/ /\ a.project_uuid = b.project_uuid
                /\ a.branch = b.branch
                /\ ZeroPadded(a.date)
                /\ ZeroPadded(b.date)
                /\ Instant(a.date) # Instant(b.date)) =>
                /\ output[1][1] # output[2][1]
                /\ output[1][2] # output[2][2]

\* two runs on the same day, at different times of day, told apart
C10_Witness ==
    /\ output # << >>
    /\ input[1].project_uuid = input[2].project_uuid
    /\ input[1].branch = input[2].branch
    /\ input[1].date = <<"2", "0", "2", "4", "-", "0", "1", "-", "0", "1", " ", "1", "2", ":", "3", "0", ":", "0", "0">>
    /\ input[2].date = <<"2", "0", "2", "4", "-", "0", "1", "-", "0", "1">>
    /\ output[1][1] # output[2][1]

=============================================================================
